---- MODULE Spec2Model ----
(***************************************************************************)
(* LLM profiles: the index schema (profiles/config.py), the profile store  *)
(* ProfileManager (profiles/manager.py) and the registry LLMRegistry       *)
(* (llm_registry.py).                                                      *)
(*                                                                         *)
(* Strings the code takes apart or orders (profile names, file names,      *)
(* usage ids) are sequences of code points; Python's None is the empty     *)
(* sequence None and a present value x is Some(x) = <<x>>.                 *)
(* The filesystem is reliable: write_text, read_text and unlink do what    *)
(* they are asked (spec section 4.2), except under FaultSpec, where a      *)
(* write may raise OSError.                                                *)
(***************************************************************************)
EXTENDS Integers, Sequences, FiniteSets, TLC

VARIABLES
    files,            \* files[d]: the directory d (base_dir of store d), file name -> content;
                      \* a directory that does not exist is not in DOMAIN files
    config,           \* config[s]: ProfileManager.config of store s, the store opened on
                      \* the directory s
    default_cache,    \* the functools.cache of ProfileManager.get_default_profile, keyed by self
    profile_manager,  \* LLMRegistry.profile_manager: None or Some(store)
    usage_to_llm,     \* LLMRegistry._usage_to_llm, a dict in insertion order: <<usage_id, llm>>
    subscriber,       \* LLMRegistry.subscriber: None or Some(callback)
    default_seen,     \* history: what get_default_profile last returned on each store
    subscribed,       \* history: the callbacks of the last two calls of subscribe
    last              \* history: the last call, its arguments and its outcome

vars == <<files, config, default_cache, profile_manager, usage_to_llm,
          subscriber, default_seen, subscribed, last>>

(***************************************************************************)
(* Optional values and strings                                             *)
(***************************************************************************)
None == <<>>

Some(x) == <<x>>

\* code points of the characters the model writes
Chr == [c \in {"a", "b", "c", "f", "g", "i", "j", "n", "o", "s", "u",
               "1", "2", ".", "/", "_", "-", " "} |->
          CASE c = "a" -> 97  [] c = "b" -> 98  [] c = "c" -> 99
            [] c = "f" -> 102 [] c = "g" -> 103 [] c = "i" -> 105
            [] c = "j" -> 106 [] c = "n" -> 110 [] c = "o" -> 111
            [] c = "s" -> 115 [] c = "u" -> 117 [] c = "1" -> 49
            [] c = "2" -> 50  [] c = "." -> 46  [] c = "/" -> 47
            [] c = "_" -> 95  [] c = "-" -> 45  [] c = " " -> 32]

Str(t) == [i \in 1..Len(t) |-> Chr[t[i]]]

EndsWith(s, suffix) ==
    /\ Len(s) >= Len(suffix)
    /\ SubSeq(s, Len(s) - Len(suffix) + 1, Len(s)) = suffix

\* Python's str < str: lexicographic on code points
StrLess(a, b) ==
    \E k \in 0..Len(a) :
        /\ k <= Len(b)
        /\ \A i \in 1..k : a[i] = b[i]
        /\ \/ k = Len(a) /\ k < Len(b)
           \/ k < Len(a) /\ k < Len(b) /\ a[k + 1] < b[k + 1]

\* sorted(set_of_strings)
RECURSIVE sorted(_)
sorted(S) ==
    IF S = {} THEN <<>>
    ELSE LET m == CHOOSE x \in S : \A y \in S \ {x} : StrLess(x, y)
         IN  <<m>> \o sorted(S \ {m})

Range(f) == {f[i] : i \in DOMAIN f}

(***************************************************************************)
(* profiles/config.py                                                      *)
(***************************************************************************)
DOT_JSON == Str(<<".", "j", "s", "o", "n">>)

INVALID_PROFILE_NAMES ==
    {Str(<<>>), Str(<<".">>), Str(<<".", ".">>), Str(<<"c", "o", "n", "f", "i", "g">>)}

\* the character class [A-Za-z0-9._-]
NamePatternChars == (65..90) \cup (97..122) \cup (48..57) \cup {46, 95, 45}

\* Field(pattern=r"^[A-Za-z0-9._-]+$")
NamePattern(name) == Len(name) >= 1 /\ \A i \in 1..Len(name) : name[i] \in NamePatternChars

\* Field(pattern=r".*\.json$")
FilePattern(file) == EndsWith(file, DOT_JSON)

\* ProfileMetadata without validate_name
ProfileMetadataValid_patterns_only(name, file) ==
    /\ NamePattern(name)
    /\ FilePattern(file)

\* ProfileMetadata(...) does not raise ValidationError
ProfileMetadataValid(name, file) ==
    /\ NamePattern(name)
    /\ FilePattern(file)
    /\ name \notin INVALID_PROFILE_NAMES

ProfileMetadata(name, file, description, usage_id) ==
    [name |-> name, file |-> file, description |-> description, usage_id |-> usage_id]

validate_unicity_profile_names(profiles) ==
    Cardinality({profiles[i].name : i \in DOMAIN profiles}) = Len(profiles)

validate_default_profile_exists(default_profile, profiles) ==
    \/ default_profile = None
    \/ default_profile[1] \in {profiles[i].name : i \in DOMAIN profiles}

\* the usage ids filtered by their truth value, as get_id_usages does
validate_unicity_truthy_id_usages(profiles) ==
    LET id_usages == SelectSeq(profiles, LAMBDA p : p.usage_id # None /\ p.usage_id[1] # <<>>)
    IN  Len(id_usages) = Cardinality({id_usages[i].usage_id : i \in DOMAIN id_usages})

validate_unicity_non_none_id_sages(profiles) ==
    LET id_usages == SelectSeq(profiles, LAMBDA p : p.usage_id # None)
    IN  Len(id_usages) = Cardinality({id_usages[i].usage_id : i \in DOMAIN id_usages})

\* ProfilesConfig(...) does not raise ValidationError
ProfilesConfigValid(default_profile, profiles) ==
    /\ validate_unicity_profile_names(profiles)
    /\ validate_default_profile_exists(default_profile, profiles)
    /\ validate_unicity_non_none_id_sages(profiles)

ProfilesConfig(default_profile, profiles) ==
    [default_profile |-> default_profile, profiles |-> profiles]

empty == ProfilesConfig(None, <<>>)

(***************************************************************************)
(* The LLM objects (openhands.sdk.llm.llm.LLM is outside this slice). An   *)
(* object has the fields model, usage_id and api_key; oid is its identity  *)
(* (`is`), and loaded_from records the profile a loaded object came from.  *)
(***************************************************************************)
LLM(model, usage_id, api_key, oid) ==
    [model |-> model, usage_id |-> usage_id, api_key |-> api_key,
     oid |-> oid, loaded_from |-> None]

\* LLM.__eq__: equality on the fields
Fields(llm) == [model |-> llm.model, usage_id |-> llm.usage_id, api_key |-> llm.api_key]

\* llm.model_dump(exclude_none=True, context={"expose_secrets": include_secrets})
model_dump(llm, include_secrets) ==
    [model |-> llm.model, usage_id |-> llm.usage_id,
     api_key |-> IF include_secrets THEN llm.api_key ELSE None]

\* LLM.load_from_json(path) on a document: a new object
load_from_json(doc, oid, name) ==
    [model |-> doc.model, usage_id |-> doc.usage_id, api_key |-> doc.api_key,
     oid |-> oid, loaded_from |-> Some(name)]

(***************************************************************************)
(* Directories                                                             *)
(***************************************************************************)
CONFIG_JSON == Str(<<"c", "o", "n", "f", "i", "g">>) \o DOT_JSON

\* json.dumps of an Optional[str]: null or a string
json_optional(opt) == IF opt = None THEN <<"null">> ELSE <<"string", opt[1]>>

\* json.loads of null or a string
optional_of_json(j) == IF j[1] = "null" THEN None ELSE Some(j[2])

\* json.dumps(config.model_dump()): the object written to config.json
json_dumps_config(cfg) ==
    [default_profile |-> json_optional(cfg.default_profile),
     profiles |-> [i \in DOMAIN cfg.profiles |->
                     [name |-> cfg.profiles[i].name,
                      file |-> cfg.profiles[i].file,
                      description |-> cfg.profiles[i].description,
                      usage_id |-> json_optional(cfg.profiles[i].usage_id)]]]

\* cls(**json.loads(text)): the fields the constructor is given
json_loads_config(json) ==
    [default_profile |-> optional_of_json(json.default_profile),
     profiles |-> [i \in DOMAIN json.profiles |->
                     [name |-> json.profiles[i].name,
                      file |-> json.profiles[i].file,
                      description |-> json.profiles[i].description,
                      usage_id |-> optional_of_json(json.profiles[i].usage_id)]]]

ConfigFile(cfg) == <<"config", json_dumps_config(cfg)>>

DocFile(doc) == <<"document", doc>>

\* Path.write_text
write_text(dir, path, content) ==
    [p \in DOMAIN dir \cup {path} |-> IF p = path THEN content ELSE dir[p]]

\* Path.unlink(missing_ok=True)
unlink(dir, path) == [p \in DOMAIN dir \ {path} |-> dir[p]]

is_file(dir, path) == path \in DOMAIN dir

\* str.rfind("."), 1-based, 0 when there is no dot
rfind_dot(name) ==
    IF \E i \in 1..Len(name) : name[i] = 46
    THEN CHOOSE i \in 1..Len(name) :
            name[i] = 46 /\ \A j \in (i + 1)..Len(name) : name[j] # 46
    ELSE 0

\* PurePath.suffix: the last dot and what follows it, unless the dot is the
\* first or the last character of the name
suffix(name) ==
    LET i == rfind_dot(name)
    IN  IF 1 < i /\ i < Len(name) THEN SubSeq(name, i, Len(name)) ELSE <<>>

\* PurePath.with_suffix(new) on the last component of the path
with_suffix(name, new) ==
    SubSeq(name, 1, Len(name) - Len(suffix(name))) \o new

(***************************************************************************)
(* profiles/manager.py: ProfileManager                                     *)
(***************************************************************************)
\* ProfilesConfig.from_json raises ValidationError on this index file
from_json_raises(content) ==
    LET cfg == json_loads_config(content[2])
    IN  \/ \E i \in DOMAIN cfg.profiles :
              ~ProfileMetadataValid(cfg.profiles[i].name, cfg.profiles[i].file)
        \/ ~ProfilesConfigValid(cfg.default_profile, cfg.profiles)

\* ProfilesConfig.from_json of an index file that passes validation
from_json(content) == json_loads_config(content[2])

\* _ensure_config_file writing the empty index whatever the directory holds
ensure_config_file_always(dir) == write_text(dir, CONFIG_JSON, ConfigFile(empty))

\* _ensure_config_file on the directory
ensure_config_file(dir) ==
    IF is_file(dir, CONFIG_JSON) THEN dir
    ELSE write_text(dir, CONFIG_JSON, ConfigFile(empty))

\* _load_config after _ensure_config_file: the config of a new ProfileManager
load_config(dir) == from_json(ensure_config_file(dir)[CONFIG_JSON])

\* _ensure_directories: base_dir.mkdir(parents=True, exist_ok=True)
ensure_directories(fs, d) == IF d \in DOMAIN fs THEN fs ELSE (d :> <<>>) @@ fs

\* ProfileManager(d): what __init__ raises, the filesystem it leaves and the config
\* of the new store
init(fs, d) ==
    LET made == ensure_directories(fs, d)
        dir == ensure_config_file(made[d])
    IN  IF from_json_raises(dir[CONFIG_JSON])
        THEN [raised |-> "ValidationError", files |-> [made EXCEPT ![d] = dir],
              config |-> empty]
        ELSE [raised |-> "", files |-> [made EXCEPT ![d] = dir],
              config |-> load_config(made[d])]

get_profile_names(s) == [i \in DOMAIN config[s].profiles |-> config[s].profiles[i].name]

\* Python truth value of an Optional[str]: None and "" are false
Truthy(usage_id) == usage_id # None /\ usage_id[1] # <<>>

UsageIdsOf(profiles) ==
    LET kept == SelectSeq(profiles, LAMBDA p : Truthy(p.usage_id))
    IN  [i \in DOMAIN kept |-> kept[i].usage_id[1]]

get_id_usages(s) == UsageIdsOf(config[s].profiles)

list_profiles(s) == config[s].profiles

\* index of the first profile with this name, 0 if there is none
FirstIndex(profiles, name) ==
    IF \E i \in DOMAIN profiles : profiles[i].name = name
    THEN CHOOSE i \in DOMAIN profiles :
            profiles[i].name = name /\ \A j \in 1..(i - 1) : profiles[j].name # name
    ELSE 0

\* load_profile(name): what it raises, and the object it returns
load_profile(s, name, oid) ==
    LET idx == FirstIndex(config[s].profiles, name) IN
    IF idx = 0
    THEN [raised |-> "FileNotFoundError: Unknown profile", ret |-> None, reads |-> 0,
          message_names |-> Some(name)]
    ELSE LET path == config[s].profiles[idx].file IN
         IF ~is_file(files[s], path)
         THEN [raised |-> "FileNotFoundError: No such file", ret |-> None, reads |-> 1,
               message_names |-> None]
         ELSE [raised |-> "",
               ret |-> Some(load_from_json(files[s][path][2], oid, name)),
               reads |-> 1, message_names |-> None]

\* the store as the operations below take and give it
Store(s) == [config |-> config[s], dir |-> files[s]]

\* update_config with the replacement forgotten: always append
update_config_append(profiles, profile_metadata) == Append(profiles, profile_metadata)

\* update_config moving an overwritten entry to the end
update_config_move_last(profiles, profile_metadata) ==
    Append(SelectSeq(profiles, LAMBDA p : p.name # profile_metadata.name), profile_metadata)

\* _write_config forgotten: the index stays in memory
write_config_nothing(cfg, dir) == dir

\* _write_config
write_config(cfg, dir) == write_text(dir, CONFIG_JSON, ConfigFile(cfg))

\* save_profile, "update config": replace the entry of that name where it is, else append
update_config(profiles, profile_metadata) ==
    LET idx == FirstIndex(profiles, profile_metadata.name) IN
    IF idx # 0
    THEN [profiles EXCEPT ![idx] = profile_metadata]
    ELSE Append(profiles, profile_metadata)

\* save_profile on a store: what it raises and the store it leaves
save_profile(st, name, description, llm, include_secrets) ==
    LET profile_filename == name \o DOT_JSON
        profile_data == model_dump(llm, include_secrets)
    IN  IF ~ProfileMetadataValid(name, profile_filename)
        THEN [raised |-> "ValidationError", config |-> st.config, dir |-> st.dir]
        ELSE LET profile_metadata ==
                     ProfileMetadata(name, profile_filename, description,
                                     Some(profile_data.usage_id))
                 cfg == [st.config EXCEPT !.profiles = update_config(@, profile_metadata)]
                 dir == write_text(st.dir, profile_filename, DocFile(profile_data))
             IN  [raised |-> "", config |-> cfg, dir |-> write_config(cfg, dir)]

\* delete_profile_refused without the check for the default profile
delete_profile_refused_absent_only(cfg, name) ==
    name \notin {cfg.profiles[i].name : i \in DOMAIN cfg.profiles}

\* delete_profile: the two checks that raise ValueError
delete_profile_refused(cfg, name) ==
    \/ name \notin {cfg.profiles[i].name : i \in DOMAIN cfg.profiles}
    \/ Some(name) = cfg.default_profile

\* delete_profile: the file it removes
delete_profile_path(name) == with_suffix(name, DOT_JSON)

\* delete_profile on a store
delete_profile(st, name) ==
    IF delete_profile_refused(st.config, name)
    THEN [raised |-> "ValueError", config |-> st.config, dir |-> st.dir]
    ELSE LET dir == unlink(st.dir, delete_profile_path(name))
             cfg == [st.config EXCEPT !.profiles = SelectSeq(@, LAMBDA p : p.name # name)]
         IN  [raised |-> "", config |-> cfg, dir |-> write_config(cfg, dir)]

\* set_default_profile without its check
set_default_profile_never_refused(cfg, name) == FALSE

\* set_default_profile: the check that raises ValueError
set_default_profile_refused(cfg, name) ==
    name \notin {cfg.profiles[i].name : i \in DOMAIN cfg.profiles}

\* set_default_profile on a store (the cache is cleared by the action)
set_default_profile(st, name) ==
    IF set_default_profile_refused(st.config, name)
    THEN [raised |-> "ValueError", config |-> st.config, dir |-> st.dir]
    ELSE LET cfg == [st.config EXCEPT !.default_profile = Some(name)]
         IN  [raised |-> "", config |-> cfg, dir |-> write_config(cfg, st.dir)]

\* An I/O failure of an operation: the write that fails raises OSError at open(), as on
\* a read-only file or directory, and leaves the file as it was. "document" is the
\* write or the removal of the profile document, "config" the write of config.json.
Faults == {"document", "config"}

\* save_profile when the write `fault` fails
save_profile_failing(st, name, description, llm, include_secrets, fault) ==
    LET profile_filename == name \o DOT_JSON
        profile_data == model_dump(llm, include_secrets)
    IN  IF ~ProfileMetadataValid(name, profile_filename)
        THEN [raised |-> "ValidationError", config |-> st.config, dir |-> st.dir]
        ELSE IF fault = "document"
        THEN [raised |-> "OSError: document", config |-> st.config, dir |-> st.dir]
        ELSE LET profile_metadata ==
                     ProfileMetadata(name, profile_filename, description,
                                     Some(profile_data.usage_id))
                 cfg == [st.config EXCEPT !.profiles = update_config(@, profile_metadata)]
                 dir == write_text(st.dir, profile_filename, DocFile(profile_data))
             IN  [raised |-> "OSError: config.json", config |-> cfg, dir |-> dir]

\* delete_profile when the write `fault` fails
delete_profile_failing(st, name, fault) ==
    IF delete_profile_refused(st.config, name)
    THEN [raised |-> "ValueError", config |-> st.config, dir |-> st.dir]
    ELSE IF fault = "document"
    THEN [raised |-> "OSError: document", config |-> st.config, dir |-> st.dir]
    ELSE LET dir == unlink(st.dir, delete_profile_path(name))
             cfg == [st.config EXCEPT !.profiles = SelectSeq(@, LAMBDA p : p.name # name)]
         IN  [raised |-> "OSError: config.json", config |-> cfg, dir |-> dir]

\* set_default_profile when the write of config.json fails (the cache is not cleared)
set_default_profile_failing(st, name) ==
    IF set_default_profile_refused(st.config, name)
    THEN [raised |-> "ValueError", config |-> st.config, dir |-> st.dir]
    ELSE [raised |-> "OSError: config.json",
          config |-> [st.config EXCEPT !.default_profile = Some(name)],
          dir |-> st.dir]

\* cache_clear forgotten
cache_clear_nothing(cache) == cache

\* a cache that never answers
cache_hit_never(cache, s) == FALSE

\* get_default_profile.cache_clear(): the cache belongs to the function, not to one store
cache_clear(cache) == [s \in DOMAIN cache |-> None]

\* the cache lookup of functools.cache: is there an entry for this self
cache_hit(cache, s) == cache[s] # None

(***************************************************************************)
(* llm_registry.py: LLMRegistry                                            *)
(***************************************************************************)
Keys(dict) == {dict[i].key : i \in DOMAIN dict}

\* dict[key], for a key of the dict
Lookup(dict, key) == dict[CHOOSE i \in DOMAIN dict : dict[i].key = key].value

\* dict[key] = value
SetItem(dict, key, value) ==
    IF key \in Keys(dict)
    THEN [i \in DOMAIN dict |-> IF dict[i].key = key THEN [key |-> key, value |-> value]
                                ELSE dict[i]]
    ELSE Append(dict, [key |-> key, value |-> value])

\* the usage ids of the attached store, none when no store is attached
on_disk_usage_ids ==
    IF profile_manager # None THEN Range(get_id_usages(profile_manager[1])) ELSE {}

list_usage_ids == sorted(Keys(usage_to_llm) \cup on_disk_usage_ids)

\* export_profiles writing to the current working directory whatever it is given
export_target_cwd(pm, path, cwd) == cwd

\* export_profiles: the directory written, the attached store's when there is one and
\* no path is given, else the path, else the current working directory
export_target(pm, path, cwd) ==
    IF pm # None /\ path = None THEN pm[1]
    ELSE IF path # None THEN path[1] ELSE cwd

\* export_profiles: the ProfileManager it saves through, the attached one or a new
\* one opened on the directory
export_manager(pm, path, cwd) ==
    IF pm # None /\ path = None THEN Store(pm[1])
    ELSE LET dir == ensure_config_file(files[export_target(pm, path, cwd)])
         IN  [config |-> from_json(dir[CONFIG_JSON]), dir |-> dir]

\* export_profiles, the loop over self._usage_to_llm.items(): one save_profile per
\* item, in the order of the dict, until one raises
RECURSIVE export_items(_, _, _, _)
export_items(st, items, include_secrets, saved) ==
    IF items = <<>>
    THEN [raised |-> "", config |-> st.config, dir |-> st.dir, saved |-> saved]
    ELSE LET out == save_profile(st, items[1].value.model, items[1].key, items[1].value,
                                 include_secrets)
         IN  IF out.raised # ""
             THEN [raised |-> out.raised, config |-> out.config, dir |-> out.dir,
                   saved |-> saved]
             ELSE export_items([config |-> out.config, dir |-> out.dir], Tail(items),
                               include_secrets, Append(saved, items[1].key))

\* what a callback does when it is called: it returns, raises an Exception (as
\* ValueError), or raises a BaseException that is no Exception (as SystemExit)
callback_raises(callback) ==
    CASE callback = "callback" -> ""
      [] callback = "raising_callback" -> "Exception"
      [] callback = "exiting_callback" -> "BaseException"

\* notify(event): the callbacks that are called, none when nobody subscribed
notify(sub) == sub

\* notify without its try / except
notify_raises_uncaught(sub) ==
    IF sub = None THEN "" ELSE callback_raises(sub[1])

\* notify(event): what it raises; `except Exception` catches and logs an Exception
notify_raises(sub) ==
    IF sub = None THEN ""
    ELSE IF callback_raises(sub[1]) = "Exception" THEN ""
         ELSE callback_raises(sub[1])

\* subscribe keeping the callback that subscribed first
subscribe_keep_first(sub, callback) == IF sub = None THEN Some(callback) ELSE sub

\* subscribe(callback): the new value of self.subscriber
subscribe(sub, callback) == Some(callback)

\* add notifying before it inserts
add_notify_first(dict, sub, llm) ==
    [usage_to_llm |-> SetItem(dict, llm.usage_id, llm),
     notified |-> notify(sub),
     at_notify |-> IF sub = None THEN None ELSE Some(dict),
     raised |-> notify_raises(sub)]

\* add(llm) past its check: the insertion, then the notification; at_notify is the
\* map as the callback finds it
add(dict, sub, llm) ==
    LET inserted == SetItem(dict, llm.usage_id, llm)
    IN  [usage_to_llm |-> inserted,
         notified |-> notify(sub),
         at_notify |-> IF sub = None THEN None ELSE Some(inserted),
         raised |-> notify_raises(sub)]

(***************************************************************************)
(* The inputs of the model                                                 *)
(***************************************************************************)
Stores == {"S1", "S2"}

NAME_A == Str(<<"a">>)

NAME_A1 == Str(<<"a", ".", "1">>)

NAME_B == Str(<<"b">>)

NAME_CONFIG == Str(<<"c", "o", "n", "f", "i", "g">>)

NAME_SLASH == Str(<<"a", "/", "b">>)

\* the names the calls are given: valid ones (one with a suffix), a reserved one, a malformed one
Names == {NAME_A, NAME_A1, NAME_B, NAME_CONFIG, NAME_SLASH}

FUN == Str(<<"f", "u", "n">>)

Descriptions == {FUN, Str(<<"n", "o">>)}

USAGE_1 == Str(<<"u", "1">>)

USAGE_2 == Str(<<"u", "2">>)

USAGE_EMPTY == Str(<<>>)

UsageIds == {USAGE_EMPTY, USAGE_1, USAGE_2}

API_KEY == Str(<<"s", "-", "1">>)

\* the LLM objects the callers hold
llm_1 == LLM(NAME_A, USAGE_1, Some(API_KEY), -1)

llm_2 == LLM(NAME_B, USAGE_2, None, -2)

llm_3 == LLM(NAME_A1, USAGE_EMPTY, None, -3)

InputLLMs == {llm_1, llm_2, llm_3}

\* a second object of the model of llm_1, and one whose model has a provider prefix
llm_4 == LLM(NAME_A, USAGE_2, None, -4)

llm_5 == LLM(NAME_SLASH, USAGE_1, None, -5)

ExportLLMs == {llm_1, llm_2, llm_4, llm_5}

\* a directory export_profiles is given, empty at first, and Path.cwd()
TARGET_DIR == "T"

CWD == "CWD"

Dirs == Stores \cup {TARGET_DIR, CWD}

\* a path at which there is no directory at first
NEW_DIR == "NEW"

\* the longest list of profiles a ProfilesConfig is constructed with
MaxProfiles == 3

\* the entries, the lists of entries and the defaults a ProfilesConfig is constructed with
ConfigEntries ==
    {ProfileMetadata(name, name \o DOT_JSON, FUN, usage_id) :
        name \in {NAME_A, NAME_B}, usage_id \in {None, Some(USAGE_1), Some(USAGE_EMPTY)}}

ConfigProfiles == UNION {[1..n -> ConfigEntries] : n \in 0..MaxProfiles}

ConfigDefaults == {None, Some(NAME_A), Some(NAME_B)}

\* the names and the files a ProfileMetadata is constructed with
MetadataNames ==
    Names \cup {Str(<<>>), Str(<<".">>), Str(<<".", ".">>), Str(<<"a", "_", "-", "1">>),
                Str(<<"a", " ", "b">>), CONFIG_JSON}

MetadataFiles ==
    {NAME_A \o DOT_JSON, DOT_JSON, CONFIG_JSON, NAME_A, Str(<<"j", "s", "o", "n">>),
     NAME_A \o DOT_JSON \o Str(<<".", "1">>), Str(<<>>)}

Callbacks == {"callback", "raising_callback", "exiting_callback"}

\* the directory store S2 is opened on: one profile, no default
S2_PROFILE == ProfileMetadata(NAME_B, NAME_B \o DOT_JSON, FUN, Some(USAGE_2))

S2_DIR ==
    write_text(write_text(<<>>, CONFIG_JSON, ConfigFile(ProfilesConfig(None, <<S2_PROFILE>>))),
               NAME_B \o DOT_JSON, DocFile(model_dump(llm_2, TRUE)))

\* the directory each store is opened on
InitialDir(s) == IF s = "S1" THEN <<>> ELSE S2_DIR

(***************************************************************************)
(* Object identity: a new object is none of the objects still referenced   *)
(***************************************************************************)
OidsOf(opt) == IF opt = None THEN {} ELSE {opt[1].oid}

LiveOids ==
    UNION ( {IF default_cache[s] = None THEN {} ELSE OidsOf(default_cache[s][1]) : s \in Stores}
      \cup  {IF default_seen[s] = None THEN {} ELSE OidsOf(default_seen[s][1].value) : s \in Stores}
      \cup  {{usage_to_llm[i].value.oid : i \in DOMAIN usage_to_llm}}
      \cup  {OidsOf(last.ret), OidsOf(last.llm)} )

new_oid == CHOOSE n \in 1..(Cardinality(LiveOids) + 1) :
              n \notin LiveOids /\ \A m \in 1..(n - 1) : m \in LiveOids

(***************************************************************************)
(* The state after construction, and the calls                             *)
(***************************************************************************)
Call(op, store) ==
    [op |-> op, store |-> store, name |-> <<>>, description |-> <<>>,
     usage_id |-> <<>>, llm |-> None,
     raised |-> "", ret |-> None, reads |-> 0, notified |-> None,
     path |-> None, saved |-> <<>>, callback |-> None, at_notify |-> None,
     include_secrets |-> TRUE, message_names |-> None,
     file |-> <<>>, given |-> None]

\* ProfileManager.__init__ on InitialDir(s), for every store; LLMRegistry.__init__
\* with load_from_disk False or True
InitObjects ==
    /\ files = [d \in Dirs |-> IF d \in Stores THEN ensure_config_file(InitialDir(d))
                                ELSE <<>>]
    /\ config = [s \in Stores |-> load_config(InitialDir(s))]
    /\ default_cache = [s \in Stores |-> None]
    /\ profile_manager \in {None, Some("S1")}
    /\ usage_to_llm = <<>>
    /\ subscriber = None
    /\ default_seen = [s \in Stores |-> None]
    /\ subscribed = <<>>

Init ==
    /\ InitObjects
    /\ last = Call("init", "none")

RegistryUnchanged == UNCHANGED <<profile_manager, usage_to_llm, subscriber, subscribed>>

\* a successful set_default_profile, seen from the callers of get_default_profile
Rebound(seen, s) ==
    [t \in DOMAIN seen |->
        IF seen[t] = None THEN None
        ELSE Some([seen[t][1] EXCEPT !.cleared = TRUE,
                                     !.rebound = (@ \/ t = s)])]

SaveProfile(s, name, description, llm, include_secrets) ==
    LET out == save_profile(Store(s), name, description, llm, include_secrets) IN
    /\ config' = [config EXCEPT ![s] = out.config]
    /\ files' = [files EXCEPT ![s] = out.dir]
    /\ last' = [Call("save_profile", s) EXCEPT !.name = name, !.description = description,
                    !.llm = Some(llm), !.include_secrets = include_secrets,
                    !.raised = out.raised]
    /\ UNCHANGED <<default_cache, default_seen>>
    /\ RegistryUnchanged

DeleteProfile(s, name) ==
    LET out == delete_profile(Store(s), name) IN
    /\ config' = [config EXCEPT ![s] = out.config]
    /\ files' = [files EXCEPT ![s] = out.dir]
    /\ last' = [Call("delete_profile", s) EXCEPT !.name = name, !.raised = out.raised]
    /\ UNCHANGED <<default_cache, default_seen>>
    /\ RegistryUnchanged

SetDefaultProfile(s, name) ==
    LET out == set_default_profile(Store(s), name) IN
    /\ config' = [config EXCEPT ![s] = out.config]
    /\ files' = [files EXCEPT ![s] = out.dir]
    /\ default_cache' = IF out.raised = "" THEN cache_clear(default_cache) ELSE default_cache
    /\ default_seen' = IF out.raised = "" THEN Rebound(default_seen, s) ELSE default_seen
    /\ last' = [Call("set_default_profile", s) EXCEPT !.name = name, !.raised = out.raised]
    /\ RegistryUnchanged

LoadProfile(s, name) ==
    LET out == load_profile(s, name, new_oid) IN
    /\ last' = [Call("load_profile", s) EXCEPT !.name = name, !.raised = out.raised,
                    !.ret = out.ret, !.reads = out.reads,
                    !.message_names = out.message_names]
    /\ UNCHANGED <<files, config, default_cache, default_seen>>
    /\ RegistryUnchanged

SaveProfileFails(s, name, description, llm, include_secrets, fault) ==
    LET out == save_profile_failing(Store(s), name, description, llm, include_secrets, fault) IN
    /\ config' = [config EXCEPT ![s] = out.config]
    /\ files' = [files EXCEPT ![s] = out.dir]
    /\ last' = [Call("save_profile", s) EXCEPT !.name = name, !.description = description,
                    !.llm = Some(llm),
                    !.raised = out.raised]
    /\ UNCHANGED <<default_cache, default_seen>>
    /\ RegistryUnchanged

DeleteProfileFails(s, name, fault) ==
    LET out == delete_profile_failing(Store(s), name, fault) IN
    /\ config' = [config EXCEPT ![s] = out.config]
    /\ files' = [files EXCEPT ![s] = out.dir]
    /\ last' = [Call("delete_profile", s) EXCEPT !.name = name, !.raised = out.raised]
    /\ UNCHANGED <<default_cache, default_seen>>
    /\ RegistryUnchanged

SetDefaultProfileFails(s, name) ==
    LET out == set_default_profile_failing(Store(s), name) IN
    /\ config' = [config EXCEPT ![s] = out.config]
    /\ files' = [files EXCEPT ![s] = out.dir]
    /\ last' = [Call("set_default_profile", s) EXCEPT !.name = name, !.raised = out.raised]
    /\ UNCHANGED <<default_cache, default_seen>>
    /\ RegistryUnchanged

\* ProfilesConfig(default_profile=..., profiles=...)
NewProfilesConfig(default_profile, profiles) ==
    /\ last' = [Call("ProfilesConfig", "none") EXCEPT
                    !.given = Some(ProfilesConfig(default_profile, profiles)),
                    !.raised = IF ProfilesConfigValid(default_profile, profiles) THEN ""
                               ELSE "ValidationError"]
    /\ UNCHANGED <<files, config, default_cache, default_seen>>
    /\ RegistryUnchanged

\* ProfileMetadata(name=..., file=..., description=...)
NewProfileMetadata(name, file) ==
    /\ last' = [Call("ProfileMetadata", "none") EXCEPT
                    !.name = name, !.file = file,
                    !.raised = IF ProfileMetadataValid(name, file) THEN ""
                               ELSE "ValidationError"]
    /\ UNCHANGED <<files, config, default_cache, default_seen>>
    /\ RegistryUnchanged

\* store = ProfileManager(d): a new store on the directory d; held in place of the
\* store that was open on d, if any. The new object has no entry in the cache.
Construct(d) ==
    LET out == init(files, d)
        forget(f) == IF d \in DOMAIN f /\ out.raised = "" THEN [f EXCEPT ![d] = None] ELSE f
    IN  /\ files' = out.files
        /\ config' = IF out.raised = "" THEN (d :> out.config) @@ config ELSE config
        /\ default_cache' = forget(default_cache)
        /\ default_seen' = forget(default_seen)
        /\ last' = [Call("ProfileManager", d) EXCEPT !.raised = out.raised]
        /\ RegistryUnchanged

\* @cache get_default_profile: a hit returns the cached object; a miss runs the
\* body and caches what it returns (an exception is not cached)
GetDefaultProfile(s) ==
    LET body == IF config[s].default_profile = None
                THEN [raised |-> "", ret |-> None, reads |-> 0]
                ELSE load_profile(s, config[s].default_profile[1], new_oid)
        out == IF cache_hit(default_cache, s)
               THEN [raised |-> "", ret |-> default_cache[s][1], reads |-> 0]
               ELSE body
    IN  /\ default_cache' = IF out.raised = "" THEN [default_cache EXCEPT ![s] = Some(out.ret)]
                            ELSE default_cache
        /\ default_seen' = IF out.raised = ""
                           THEN [default_seen EXCEPT ![s] =
                                   Some([value |-> out.ret, cleared |-> FALSE, rebound |-> FALSE])]
                           ELSE default_seen
        /\ last' = [Call("get_default_profile", s) EXCEPT !.raised = out.raised,
                        !.ret = out.ret, !.reads = out.reads]
        /\ UNCHANGED <<files, config>>
        /\ RegistryUnchanged

StoresUnchanged == UNCHANGED <<files, config, default_cache, default_seen>>

Subscribe(callback) ==
    /\ subscriber' = subscribe(subscriber, callback)
    /\ subscribed' = IF subscribed = <<>> THEN <<callback>>
                     ELSE <<subscribed[Len(subscribed)], callback>>
    /\ last' = [Call("subscribe", "none") EXCEPT !.callback = Some(callback)]
    /\ UNCHANGED <<profile_manager, usage_to_llm>>
    /\ StoresUnchanged

Add(llm) ==
    LET usage_id == llm.usage_id
        duplicate == usage_id \in Range(list_usage_ids)
        out == IF duplicate
               THEN [usage_to_llm |-> usage_to_llm, notified |-> <<>>, at_notify |-> None,
                     raised |-> "ValueError"]
               ELSE add(usage_to_llm, subscriber, llm)
    IN  /\ usage_to_llm' = out.usage_to_llm
        /\ last' = [Call("add", "none") EXCEPT !.usage_id = usage_id, !.llm = Some(llm),
                        !.raised = out.raised,
                        !.notified = out.notified,
                        !.at_notify = out.at_notify]
        /\ UNCHANGED <<profile_manager, subscriber, subscribed>>
        /\ StoresUnchanged

ExportProfiles(path, include_secrets) ==
    LET target == export_target(profile_manager, path, CWD)
        attached == profile_manager # None /\ path = None
        opened == ensure_config_file(files[target])
        refused == ~attached /\ from_json_raises(opened[CONFIG_JSON])
        out == IF refused
               THEN [raised |-> "ValidationError", config |-> empty, dir |-> opened,
                     saved |-> <<>>]
               ELSE export_items(export_manager(profile_manager, path, CWD), usage_to_llm,
                                 include_secrets, <<>>)
    IN  /\ files' = [files EXCEPT ![target] = out.dir]
        /\ config' = IF attached THEN [config EXCEPT ![target] = out.config] ELSE config
        /\ last' = [Call("export_profiles", target) EXCEPT !.path = path,
                        !.raised = out.raised, !.saved = out.saved]
        /\ UNCHANGED <<default_cache, default_seen>>
        /\ RegistryUnchanged

\* get looking in the store before it looks in the map
get_branch_disk_first(usage_id) ==
    IF profile_manager # None /\ usage_id \in Range(get_id_usages(profile_manager[1]))
    THEN "disk"
    ELSE IF usage_id \in Keys(usage_to_llm) THEN "memory" ELSE "missing"

\* get(usage_id), the branch taken: "memory", "disk" or "missing"
get_branch(usage_id) ==
    IF usage_id \in Keys(usage_to_llm) THEN "memory"
    ELSE IF profile_manager # None /\ usage_id \in Range(get_id_usages(profile_manager[1]))
         THEN "disk"
         ELSE "missing"

\* get(usage_id), the disk branch reading the first profile of the index whatever its usage id
profile_name_of_first(profiles, usage_id) == profiles[1].name

\* get(usage_id), the disk branch: the name of the first profile with this usage id
profile_name_of(profiles, usage_id) ==
    profiles[CHOOSE i \in DOMAIN profiles :
                /\ profiles[i].usage_id = Some(usage_id)
                /\ \A j \in 1..(i - 1) : profiles[j].usage_id # Some(usage_id)].name

Get(usage_id) ==
    LET branch == get_branch(usage_id)
        out == CASE branch = "memory" ->
                      [raised |-> "", ret |-> Some(Lookup(usage_to_llm, usage_id)), reads |-> 0]
                 [] branch = "disk" ->
                      load_profile(profile_manager[1],
                                   profile_name_of(config[profile_manager[1]].profiles, usage_id),
                                   new_oid)
                 [] OTHER -> [raised |-> "KeyError", ret |-> None, reads |-> 0]
    IN  /\ usage_to_llm' = IF branch = "disk" /\ out.raised = ""
                           THEN SetItem(usage_to_llm, usage_id, out.ret[1])
                           ELSE usage_to_llm
        /\ last' = [Call("get", "none") EXCEPT !.usage_id = usage_id, !.raised = out.raised,
                        !.ret = out.ret, !.reads = out.reads]
        /\ UNCHANGED <<profile_manager, subscriber, subscribed>>
        /\ StoresUnchanged

(***************************************************************************)
(* The calls a program makes, by the part of the system it exercises       *)
(***************************************************************************)
\* the calls that change store s
StoreWrites(s, names, descriptions, llms, secrets) ==
    \/ \E name \in names, description \in descriptions, llm \in llms,
          include_secrets \in secrets :
            SaveProfile(s, name, description, llm, include_secrets)
    \/ \E name \in names : DeleteProfile(s, name)
    \/ \E name \in names : SetDefaultProfile(s, name)

\* the index and the documents of one store, under every name
StoreNext ==
    StoreWrites("S1", Names, Descriptions, {llm_1, llm_3}, {TRUE})

\* the default binding and its cache; S2 is a second store of the same process
CacheNext ==
    \/ StoreWrites("S1", {NAME_A, NAME_B}, {FUN}, {llm_1, llm_2}, {TRUE})
    \/ \E name \in {NAME_A, NAME_B} : SetDefaultProfile("S2", name)
    \/ \E s \in Stores : GetDefaultProfile(s)

\* the registry over its in-memory map and the index of store S1
RegistryNext ==
    \/ \E name \in {NAME_A, NAME_A1}, llm \in InputLLMs :
          SaveProfile("S1", name, FUN, llm, TRUE)
    \/ \E name \in {NAME_A, NAME_A1} : DeleteProfile("S1", name)
    \/ \E llm \in InputLLMs : Add(llm)
    \/ \E usage_id \in UsageIds : Get(usage_id)

\* one store whose writes may fail
FaultNext ==
    \/ StoreWrites("S1", {NAME_A, NAME_B}, {FUN}, {llm_1, llm_2}, {TRUE})
    \/ \E name \in {NAME_A, NAME_B}, llm \in {llm_1, llm_2}, fault \in Faults :
          SaveProfileFails("S1", name, FUN, llm, TRUE, fault)
    \/ \E name \in {NAME_A, NAME_B}, fault \in Faults : DeleteProfileFails("S1", name, fault)
    \/ \E name \in {NAME_A, NAME_B} : SetDefaultProfileFails("S1", name)

\* a registry that is exported, to its attached store, to a directory, or to the
\* current working directory; store S1 also holds a profile the registry never loaded
ExportNext ==
    \/ \E llm \in ExportLLMs : Add(llm)
    \/ SaveProfile("S1", NAME_B, FUN, llm_2, TRUE)
    \/ \E path \in {None, Some(TARGET_DIR)}, include_secrets \in BOOLEAN :
          ExportProfiles(path, include_secrets)

\* a registry and its subscriber; store S1 holds a profile for get to load
EventNext ==
    \/ \E callback \in Callbacks : Subscribe(callback)
    \/ \E llm \in InputLLMs : Add(llm)
    \/ \E usage_id \in UsageIds : Get(usage_id)
    \/ SaveProfile("S1", NAME_B, FUN, llm_2, TRUE)

\* stores that are opened: on the directory of a store in use, on one that holds
\* another index, on an empty one and on one that does not exist
OpenNext ==
    \/ StoreWrites("S1", {NAME_A, NAME_B}, {FUN}, {llm_1, llm_2}, {TRUE})
    \/ \E d \in {"S1", "S2", TARGET_DIR, NEW_DIR} : Construct(d)

\* a store that is written and then opened again on its directory
ReloadNext ==
    \/ StoreWrites("S1", {NAME_A, NAME_A1}, {FUN}, {llm_1, llm_2}, {TRUE})
    \/ Construct("S1")

\* profiles saved with and without their secrets, and loaded
LoadNext ==
    \/ \E name \in {NAME_A, NAME_A1}, llm \in {llm_1, llm_2}, include_secrets \in BOOLEAN :
          SaveProfile("S1", name, FUN, llm, include_secrets)
    \/ \E name \in {NAME_A, NAME_A1} : DeleteProfile("S1", name)
    \/ \E name \in {NAME_A, NAME_A1, NAME_B} : LoadProfile("S1", name)

\* the index schema on its own: the constructor is applied to the arguments given
ConfigNext ==
    /\ last.op = "init"
    /\ NewProfilesConfig(last.given[1].default_profile, last.given[1].profiles)

\* the arguments a ProfilesConfig is constructed with
ConfigInit ==
    /\ InitObjects
    /\ profile_manager = None
    /\ \E default_profile \in ConfigDefaults, profiles \in ConfigProfiles :
          last = [Call("init", "none") EXCEPT
                     !.given = Some(ProfilesConfig(default_profile, profiles))]

\* the entry schema, and a store that is given the same names
MetadataNext ==
    \/ \E name \in MetadataNames, file \in MetadataFiles : NewProfileMetadata(name, file)
    \/ \E name \in Names \cup INVALID_PROFILE_NAMES : SaveProfile("S1", name, FUN, llm_1, TRUE)

\* a registry, its attached store S1, and every operation on either
AttachedNext ==
    \/ \E name \in {NAME_A, NAME_A1}, llm \in {llm_1, llm_2} :
          SaveProfile("S1", name, FUN, llm, TRUE)
    \/ \E name \in {NAME_A, NAME_A1} : DeleteProfile("S1", name)
    \/ SetDefaultProfile("S1", NAME_A)
    \/ \E llm \in {llm_1, llm_2} : Add(llm)
    \/ \E usage_id \in {USAGE_1, USAGE_2} : Get(usage_id)
    \/ ExportProfiles(None, TRUE)

\* the state after construction when the registry is made with load_from_disk True
InitAttached == Init /\ profile_manager = Some("S1")

\* the state after construction when the registry is made with load_from_disk False
InitDetached == Init /\ profile_manager = None

\* a store used on its own
StoreSpec == InitDetached /\ [][StoreNext]_vars

\* two stores used on their own
CacheSpec == InitDetached /\ [][CacheNext]_vars

\* a store whose writes may fail
FaultSpec == InitDetached /\ [][FaultNext]_vars

\* ProfilesConfig constructed from lists of entries
ConfigSpec == ConfigInit /\ [][ConfigNext]_vars

\* ProfileMetadata constructed, directly and by save_profile
MetadataSpec == InitDetached /\ [][MetadataNext]_vars

\* a registry attached to the store S1
AttachedSpec == InitAttached /\ [][AttachedNext]_vars

\* a store that is opened again
ReloadSpec == InitDetached /\ [][ReloadNext]_vars

\* a store whose profiles are loaded
LoadSpec == InitDetached /\ [][LoadNext]_vars

\* stores opened on directories
OpenSpec == InitDetached /\ [][OpenNext]_vars

\* a registry and its subscriber
EventSpec == Init /\ [][EventNext]_vars

\* a registry and its exports
ExportSpec == Init /\ [][ExportNext]_vars

\* a registry, with load_from_disk False or True, and the store S1
RegistrySpec == Init /\ [][RegistryNext]_vars

(***************************************************************************)
(* The registry: C1, C2, C3 (under RegistrySpec)                           *)
(***************************************************************************)
\* the usage ids the entries of the attached store's index carry
IndexUsageIds ==
    IF profile_manager = None THEN {}
    ELSE LET profiles == config[profile_manager[1]].profiles
         IN  {profiles[i].usage_id[1] : i \in {j \in DOMAIN profiles : profiles[j].usage_id # None}}

\* the entry of the attached store's index that get(usage_id) is to load
IndexEntry(usage_id) ==
    LET profiles == config[profile_manager[1]].profiles
    IN  profiles[CHOOSE i \in DOMAIN profiles :
                    /\ profiles[i].usage_id = Some(usage_id)
                    /\ \A j \in 1..(i - 1) : profiles[j].usage_id # Some(usage_id)]

\* the map after usage_id -> llm was inserted as a new key
Inserted(dict, usage_id, llm) ==
    /\ usage_id \notin Keys(dict)
    /\ usage_to_llm' = Append(dict, [key |-> usage_id, value |-> llm])

\* what the claim C1 says of one call add(llm)
AddAsClaimed(llm) ==
    IF llm.usage_id \in Keys(usage_to_llm) \cup IndexUsageIds
    THEN last'.raised = "ValueError" /\ usage_to_llm' = usage_to_llm
    ELSE last'.raised = "" /\ Inserted(usage_to_llm, llm.usage_id, llm)

\* C1: add(llm) raises ValueError and leaves the in-memory map unchanged whenever
\* llm.usage_id is a key of the map or the usage id of an entry of the attached
\* store's index (loaded or not); otherwise it inserts usage_id -> llm.
C1_AddRejectsKnownUsageId ==
    [][last'.op = "add" => AddAsClaimed(last'.llm[1])]_vars

\* C1, apart from the empty usage id: the claim holds of every add of an LLM whose
\* usage id is not the empty string
C1_AddOfNonEmptyUsageId ==
    [][last'.op = "add" /\ last'.usage_id # USAGE_EMPTY => AddAsClaimed(last'.llm[1])]_vars

\* what the claim C2 says of one call get(usage_id)
GetAsClaimed(usage_id) ==
    IF usage_id \in Keys(usage_to_llm)
    THEN /\ last'.raised = ""
         /\ last'.ret = Some(Lookup(usage_to_llm, usage_id))
         /\ last'.reads = 0
         /\ usage_to_llm' = usage_to_llm
    ELSE IF usage_id \in IndexUsageIds
    THEN /\ last'.raised = ""
         /\ last'.ret # None
         /\ last'.ret[1].loaded_from = Some(IndexEntry(usage_id).name)
         /\ last'.ret[1].oid \notin LiveOids
         /\ Inserted(usage_to_llm, usage_id, last'.ret[1])
    ELSE /\ last'.raised = "KeyError"
         /\ usage_to_llm' = usage_to_llm

\* C2: get(usage_id) returns the in-memory instance when the map has the key, without
\* consulting the store; otherwise, when the attached store's index has an entry with
\* that usage id, it loads that entry's profile, inserts it into the map and returns
\* it; otherwise it raises KeyError and leaves the map unchanged.
C2_GetResolutionOrder ==
    [][last'.op = "get" => GetAsClaimed(last'.usage_id)]_vars

\* the document of the entry that get(usage_id) is to load is on disk
DocumentPresent(usage_id) ==
    usage_id \in IndexUsageIds =>
        is_file(files[profile_manager[1]], IndexEntry(usage_id).file)

\* C2, apart from the empty usage id and from documents that delete_profile removed
\* under another profile's name (C9)
C2_GetOfNonEmptyUsageId ==
    [][/\ last'.op = "get"
       /\ last'.usage_id # USAGE_EMPTY
       /\ (last'.usage_id \notin Keys(usage_to_llm) => DocumentPresent(last'.usage_id))
       => GetAsClaimed(last'.usage_id)]_vars

StrictlySorted(seq) == \A i \in 1..(Len(seq) - 1) : StrLess(seq[i], seq[i + 1])

\* C3: in every reachable state list_usage_ids() is the sorted, repetition-free list of
\* exactly the keys of the in-memory map and the usage ids of the entries of the
\* attached store's index (none when no store is attached).
C3_ListIsUnionOfLayers ==
    /\ Range(list_usage_ids) = Keys(usage_to_llm) \cup IndexUsageIds
    /\ StrictlySorted(list_usage_ids)

\* C3, apart from the empty usage id
C3_ListOfNonEmptyUsageIds ==
    /\ Range(list_usage_ids) \ {USAGE_EMPTY} = (Keys(usage_to_llm) \cup IndexUsageIds) \ {USAGE_EMPTY}
    /\ USAGE_EMPTY \in Keys(usage_to_llm) => USAGE_EMPTY \in Range(list_usage_ids)
    /\ StrictlySorted(list_usage_ids)

(***************************************************************************)
(* The default profile and its cache: C4, C5, C8, C10 (under CacheSpec)    *)
(***************************************************************************)
\* the document of the profile that is the default of store s
DefaultDocument(s) ==
    LET profiles == config[s].profiles
        entry == profiles[FirstIndex(profiles, config[s].default_profile[1])]
    IN  files[s][entry.file][2]

\* C4: a get_default_profile() that follows an earlier one on the same store with no
\* successful set_default_profile in between returns the identical object and reads no
\* file; the first one after a successful set_default_profile on the store returns
\* another object, loaded from the new default profile.
C4_DefaultCachedUntilRebound ==
    [][/\ last'.op = "get_default_profile"
       /\ last'.raised = ""
       /\ default_seen[last'.store] # None
       => LET s == last'.store
              seen == default_seen[s][1]
          IN  /\ ~seen.cleared => last'.ret = seen.value /\ last'.reads = 0
              /\ seen.rebound =>
                    /\ last'.ret # None
                    /\ last'.ret # seen.value
                    /\ last'.ret[1].oid \notin OidsOf(seen.value)
                    /\ last'.ret[1].loaded_from = config[s].default_profile
                    /\ Fields(last'.ret[1]) = DefaultDocument(s)]_vars

\* a second call answered from the cache with the object of the first
C4_Witness ==
    /\ last.op = "get_default_profile"
    /\ last.ret # None
    /\ last.reads = 0

\* C5: every get_default_profile() returns None when default_profile is None and
\* otherwise an object loaded from the profile default_profile names at that moment
\* (never the object, or the None, cached under an earlier binding).
C5_DefaultFollowsBinding ==
    [][last'.op = "get_default_profile" /\ last'.raised = ""
       => LET s == last'.store IN
          IF config[s].default_profile = None
          THEN last'.ret = None
          ELSE /\ last'.ret # None
               /\ last'.ret[1].loaded_from = config[s].default_profile]_vars

\* set_default_profile has just rebound a store whose callers hold the object of
\* another default, and the cache has no entry for the store
C5_Witness ==
    /\ last.op = "set_default_profile"
    /\ last.raised = ""
    /\ default_seen[last.store] # None
    /\ default_seen[last.store][1].value # None
    /\ default_seen[last.store][1].value[1].loaded_from # config[last.store].default_profile
    /\ ~cache_hit(default_cache, last.store)

\* C8: delete_profile(name) raises ValueError when name is not in the index or is the
\* default profile, and then the index, every file of the directory (index file and
\* documents) and the default-profile cache are as before.
C8_DeleteRefusedChangesNothing ==
    [][last'.op = "delete_profile"
       => LET s == last'.store
              name == last'.name
              names == Range(get_profile_names(s))
          IN  (name \notin names \/ config[s].default_profile = Some(name))
              => /\ last'.raised = "ValueError"
                 /\ config' = config
                 /\ files' = files
                 /\ default_cache' = default_cache]_vars

\* the default profile, already cached, was refused deletion
C8_Witness ==
    /\ last.op = "delete_profile"
    /\ last.raised = "ValueError"
    /\ config[last.store].default_profile = Some(last.name)
    /\ cache_hit(default_cache, last.store)
    /\ default_cache[last.store][1] # None

\* C10: set_default_profile(name) raises ValueError when name is not in the index and
\* then default_profile, the files and the cache are as before; otherwise it sets
\* default_profile to name, rewrites the index file from the new index, leaves no
\* cache entry for the store and leaves the profiles list as it was.
C10_SetDefaultProfile ==
    [][last'.op = "set_default_profile"
       => LET s == last'.store
              name == last'.name
          IN  IF name \notin Range(get_profile_names(s))
              THEN /\ last'.raised = "ValueError"
                   /\ config' = config
                   /\ files' = files
                   /\ default_cache' = default_cache
              ELSE /\ last'.raised = ""
                   /\ config'[s].default_profile = Some(name)
                   /\ config'[s].profiles = config[s].profiles
                   /\ files'[s][CONFIG_JSON] = ConfigFile(config'[s])
                   /\ \A path \in DOMAIN files[s] \ {CONFIG_JSON} :
                         is_file(files'[s], path) /\ files'[s][path] = files[s][path]
                   /\ ~cache_hit(default_cache', s)]_vars

\* a store whose default was cached and returned has been rebound to another profile
C10_Witness ==
    /\ last.op = "set_default_profile"
    /\ last.raised = ""
    /\ last.store = "S1"
    /\ default_cache[last.store] = None
    /\ default_seen[last.store] # None
    /\ default_seen[last.store][1].rebound
    /\ Len(config[last.store].profiles) = 2

(***************************************************************************)
(* The index and the documents of a store: C6, C7, C9 (under StoreSpec)    *)
(***************************************************************************)
\* a save_profile that did not raise has just run
Saved == last'.op = "save_profile" /\ last'.raised = ""

\* the positions of the entries named name
Positions(profiles, name) == {i \in DOMAIN profiles : profiles[i].name = name}

\* C6: save_profile(name, ...) replaces the entry named name where it stands when
\* there is one (same length, every other entry at its position with its content) and
\* otherwise appends the new entry as the last one (one entry more, the earlier
\* entries as they were).
C6_SaveReplacesInPlaceOrAppends ==
    [][Saved
       => LET old == config[last'.store].profiles
              new == config'[last'.store].profiles
              name == last'.name
          IN  IF Positions(old, name) # {}
              THEN /\ Len(new) = Len(old)
                   /\ Positions(new, name) = Positions(old, name)
                   /\ \A i \in DOMAIN old \ Positions(old, name) : new[i] = old[i]
              ELSE /\ Len(new) = Len(old) + 1
                   /\ new[Len(new)].name = name
                   /\ SubSeq(new, 1, Len(old)) = old]_vars

\* an entry between two others was overwritten
C6_Witness ==
    /\ last.op = "save_profile"
    /\ last.raised = ""
    /\ Len(config[last.store].profiles) = 3
    /\ config[last.store].profiles[2].name = last.name

\* C7 as stated: overwriting an existing profile leaves the index length unchanged,
\* gives the entry the new description and moves the entry to the last position.
C7_OverwriteMovesEntryLast ==
    [][Saved /\ Positions(config[last'.store].profiles, last'.name) # {}
       => LET old == config[last'.store].profiles
              new == config'[last'.store].profiles
          IN  /\ Len(new) = Len(old)
              /\ new[Len(new)].name = last'.name
              /\ new[Len(new)].description = last'.description]_vars

\* C7 as amended: overwriting an existing profile leaves the index length unchanged,
\* gives the entry the new description and keeps the entry at the position it held
\* (it is last only when it was last before).
C7_OverwriteKeepsEntryPosition ==
    [][Saved /\ Positions(config[last'.store].profiles, last'.name) # {}
       => LET old == config[last'.store].profiles
              new == config'[last'.store].profiles
          IN  /\ Len(new) = Len(old)
              /\ \A i \in Positions(old, last'.name) :
                    /\ new[i].name = last'.name
                    /\ new[i].description = last'.description
              /\ \A i \in DOMAIN old \ Positions(old, last'.name) :
                    new[i].name = old[i].name]_vars

\* the first of several entries was overwritten and is still the first
C7_Witness ==
    /\ last.op = "save_profile"
    /\ last.raised = ""
    /\ Len(config[last.store].profiles) >= 2
    /\ config[last.store].profiles[1].name = last.name
    /\ config[last.store].profiles[1].description = last.description

\* C9: a delete_profile(name) that does not raise removes exactly the document file its
\* index entry records (name + ".json", also for a name with a dot in it) and exactly
\* that entry of the index; every other document and entry is left as it was.
C9_DeleteRemovesItsDocumentOnly ==
    [][last'.op = "delete_profile" /\ last'.raised = ""
       => LET s == last'.store
              old == config[s].profiles
              entry == old[FirstIndex(old, last'.name)]
          IN  /\ config'[s].profiles = SelectSeq(old, LAMBDA p : p # entry)
              /\ DOMAIN files'[s] = (DOMAIN files[s] \ {entry.file}) \cup {CONFIG_JSON}
              /\ \A path \in DOMAIN files'[s] \ {CONFIG_JSON} :
                    files'[s][path] = files[s][path]]_vars

\* C9, apart from names with a suffix: the claim holds of every profile whose name
\* has no suffix in the sense of pathlib
C9_DeleteOfNameWithoutSuffix ==
    [][last'.op = "delete_profile" /\ last'.raised = "" /\ suffix(last'.name) = <<>>
       => LET s == last'.store
              old == config[s].profiles
              entry == old[FirstIndex(old, last'.name)]
          IN  /\ config'[s].profiles = SelectSeq(old, LAMBDA p : p # entry)
              /\ DOMAIN files'[s] = (DOMAIN files[s] \ {entry.file}) \cup {CONFIG_JSON}
              /\ \A path \in DOMAIN files'[s] \ {CONFIG_JSON} :
                    files'[s][path] = files[s][path]]_vars

(***************************************************************************)
(* The invariants of the index: C11, C12, C13 (under StoreSpec)            *)
(***************************************************************************)
\* the positions of the entries that carry the usage id usage_id
PositionsOfUsageId(profiles, usage_id) ==
    {i \in DOMAIN profiles : profiles[i].usage_id = Some(usage_id)}

\* C11: in every state reached by save_profile / delete_profile / set_default_profile
\* from a valid index, no two entries of a store's index carry the same non-null
\* usage id.
C11_UsageIdsUnique ==
    \A s \in Stores : \A usage_id \in UsageIds :
        Cardinality(PositionsOfUsageId(config[s].profiles, usage_id)) <= 1

\* C12: in every state reached by save_profile / delete_profile / set_default_profile
\* from a valid index, the entries of a store's index have pairwise distinct names.
C12_NamesUnique ==
    \A s \in Stores : \A i, j \in DOMAIN config[s].profiles :
        config[s].profiles[i].name = config[s].profiles[j].name => i = j

\* the first of three entries has just been saved again, after the other two were added
C12_Witness ==
    /\ last.op = "save_profile"
    /\ last.raised = ""
    /\ Len(config[last.store].profiles) = 3
    /\ config[last.store].profiles[1].name = last.name

\* C13: in every state reached by save_profile / delete_profile / set_default_profile
\* from a valid index, default_profile is None or the name of exactly one entry of
\* the index.
C13_DefaultNamesOneEntry ==
    \A s \in Stores :
        \/ config[s].default_profile = None
        \/ Cardinality(Positions(config[s].profiles, config[s].default_profile[1])) = 1

\* a profile was deleted from a store that has a default, and the default is still there
C13_Witness ==
    /\ last.op = "delete_profile"
    /\ last.raised = ""
    /\ config[last.store].default_profile # None
    /\ Len(config[last.store].profiles) >= 2

(***************************************************************************)
(* The index file: C14 (under StoreSpec)                                   *)
(***************************************************************************)
\* C14: after construction and after every save_profile, delete_profile or
\* set_default_profile that returned, config.json is on disk and decodes to exactly
\* the in-memory index of the store: the same default_profile and the same entries in
\* the same order.
C14_IndexFileIsTheIndex ==
    \A s \in Stores :
        /\ is_file(files[s], CONFIG_JSON)
        /\ from_json(files[s][CONFIG_JSON]) = config[s]
        /\ files[s][CONFIG_JSON] = ConfigFile(config[s])

\* the default was bound in an index of two entries, and the file on disk names it
C14_Witness ==
    /\ last.op = "set_default_profile"
    /\ last.raised = ""
    /\ Len(config[last.store].profiles) = 2
    /\ files[last.store][CONFIG_JSON][2].default_profile = <<"string", last.name>>
    /\ Len(files[last.store][CONFIG_JSON][2].profiles) = 2

(***************************************************************************)
(* Operations that raise: C15 (under FaultSpec)                            *)
(***************************************************************************)
\* a save_profile, delete_profile or set_default_profile has just run
StoreWrite == last'.op \in {"save_profile", "delete_profile", "set_default_profile"}

\* C15: when save_profile, delete_profile or set_default_profile raises (validation
\* error, policy error, or an I/O failure of the write of the document or of
\* config.json), the in-memory index of the store, profiles and default_profile, is
\* as before the call.
C15_RaiseLeavesIndexUnchanged ==
    [][StoreWrite /\ last'.raised # ""
       => config'[last'.store] = config[last'.store]]_vars

\* C15, apart from a failure of the write of config.json: an operation that raises
\* before that write leaves the in-memory index and the directory as before
C15_RaiseBeforeIndexWrite ==
    [][StoreWrite /\ last'.raised \notin {"", "OSError: config.json"}
       => /\ config'[last'.store] = config[last'.store]
          /\ files'[last'.store] = files[last'.store]]_vars

(***************************************************************************)
(* export_profiles: C16, C17 (under ExportSpec)                            *)
(***************************************************************************)
\* the file names of the documents of the in-memory instances
MemoryDocuments == {usage_to_llm[i].value.model \o DOT_JSON : i \in DOMAIN usage_to_llm}

\* what the claim C16 says of the directory an export into an empty directory leaves
ExportedAsClaimed(dir) ==
    /\ last'.raised = ""
    /\ DOMAIN dir = {CONFIG_JSON} \cup MemoryDocuments
    /\ Cardinality(DOMAIN dir) = 1 + Len(usage_to_llm)
    /\ LET index == from_json(dir[CONFIG_JSON])
       IN  /\ index.default_profile = None
           /\ Len(index.profiles) = Len(usage_to_llm)
           /\ \A i \in DOMAIN usage_to_llm :
                 LET model == usage_to_llm[i].value.model
                     usage_id == usage_to_llm[i].key
                 IN  ProfileMetadata(model, model \o DOT_JSON, usage_id, Some(usage_id))
                        \in Range(index.profiles)

\* an export into the empty directory TARGET_DIR has just run
ExportedIntoEmpty ==
    /\ last'.op = "export_profiles"
    /\ last'.path = Some(TARGET_DIR)
    /\ files[TARGET_DIR] = <<>>

\* C16: export_profiles(target) of a registry holding N in-memory instances into an
\* empty directory leaves there exactly config.json and one document per instance,
\* named <model>.json; the exported index has one entry per instance (name the
\* model, description and usage_id the usage id) and default_profile null.
C16_ExportWritesOneDocumentPerInstance ==
    [][ExportedIntoEmpty => ExportedAsClaimed(files'[TARGET_DIR])]_vars

\* the models of the in-memory instances are distinct and are valid profile names
DistinctProfileNames ==
    /\ \A i, j \in DOMAIN usage_to_llm :
          usage_to_llm[i].value.model = usage_to_llm[j].value.model => i = j
    /\ \A i \in DOMAIN usage_to_llm :
          LET model == usage_to_llm[i].value.model
          IN  ProfileMetadataValid(model, model \o DOT_JSON)

\* C16, for instances whose models are distinct and valid profile names
C16_ExportOfDistinctModels ==
    [][ExportedIntoEmpty /\ DistinctProfileNames
       => ExportedAsClaimed(files'[TARGET_DIR])]_vars

\* the directory the claim C17 says an export is written to
ClaimedTarget(path) ==
    IF path # None THEN path[1]
    ELSE IF profile_manager # None THEN profile_manager[1] ELSE CWD

\* C17: export_profiles writes only to the directory given, else to the attached
\* store, else to the current working directory; there it writes config.json and the
\* documents of the instances of the in-memory map, one save_profile per usage id of
\* the map in the order of the map; every other file of the directory, the document of
\* a profile that is only on disk included, is left as it was, nothing is loaded and
\* the in-memory map is unchanged.
C17_ExportSavesTheMemoryMapOnly ==
    [][last'.op = "export_profiles"
       => LET target == ClaimedTarget(last'.path)
              written == DOMAIN files'[target]
          IN  /\ \A d \in Dirs \ {target} : files'[d] = files[d]
              /\ \A s \in Stores \ {target} : config'[s] = config[s]
              /\ usage_to_llm' = usage_to_llm
              /\ last'.reads = 0
              /\ written \subseteq DOMAIN files[target] \cup {CONFIG_JSON} \cup MemoryDocuments
              /\ \A path \in DOMAIN files[target] \ ({CONFIG_JSON} \cup MemoryDocuments) :
                    is_file(files'[target], path) /\ files'[target][path] = files[target][path]
              /\ last'.raised = ""
                 => /\ last'.saved = [i \in DOMAIN usage_to_llm |-> usage_to_llm[i].key]
                    /\ MemoryDocuments \subseteq written
                    /\ \A i \in DOMAIN usage_to_llm :
                          files'[target][usage_to_llm[i].value.model \o DOT_JSON][2] \in
                             {model_dump(usage_to_llm[j].value, include_secrets) :
                                j \in DOMAIN usage_to_llm, include_secrets \in BOOLEAN}]_vars

\* the registry was exported to its attached store, which holds the document of a
\* profile the registry never loaded
C17_Witness ==
    /\ last.op = "export_profiles"
    /\ last.raised = ""
    /\ last.path = None
    /\ profile_manager = Some("S1")
    /\ last.saved = <<USAGE_1>>
    /\ USAGE_2 \notin Keys(usage_to_llm)
    /\ DOMAIN files["S1"] = {CONFIG_JSON, NAME_A \o DOT_JSON, NAME_B \o DOT_JSON}
    /\ Len(config["S1"].profiles) = 2

(***************************************************************************)
(* The subscriber: C18, C19, C20 (under EventSpec)                         *)
(***************************************************************************)
\* an add that passed its check and inserted has just run
Added == last'.op = "add" /\ last'.raised # "ValueError"

\* C18: an add() that inserts calls the subscribed callback exactly once, after the
\* insertion: the callback finds the added instance in the map under its usage id. An
\* add() refused with ValueError calls no callback, and get() calls none.
C18_AddNotifiesOnceAfterInsert ==
    [][/\ Added /\ subscriber # None
          => /\ last'.notified = <<subscriber[1]>>
             /\ last'.at_notify # None
             /\ last'.usage_id \in Keys(last'.at_notify[1])
             /\ Lookup(last'.at_notify[1], last'.usage_id) = last'.llm[1]
       /\ last'.op = "add" /\ last'.raised = "ValueError" => last'.notified = <<>>
       /\ last'.op = "get" => last'.notified = <<>>]_vars

\* an add to a registry that has a subscriber and another instance returned, the
\* callback having been called once
C18_Witness ==
    /\ last.op = "add"
    /\ last.raised = ""
    /\ last.notified = <<"callback">>
    /\ Len(usage_to_llm) >= 2
    /\ last.at_notify = Some(usage_to_llm)

\* C19: when the subscribed callback raises an error (an Exception) during the
\* notification, add() returns normally all the same: the exception is caught, the
\* callback was called, and the instance is in the map under its usage id, where
\* get() finds it.
C19_CallbackErrorDoesNotFailAdd ==
    [][/\ last'.op = "add"
       /\ subscriber # None
       /\ callback_raises(subscriber[1]) = "Exception"
       /\ last'.usage_id \notin Range(list_usage_ids)
       => /\ last'.raised = ""
          /\ last'.notified = <<subscriber[1]>>
          /\ last'.usage_id \in Keys(usage_to_llm')
          /\ Lookup(usage_to_llm', last'.usage_id) = last'.llm[1]]_vars

\* an add returned although its callback raised
C19_Witness ==
    /\ last.op = "add"
    /\ last.raised = ""
    /\ subscriber = Some("raising_callback")
    /\ last.notified = <<"raising_callback">>
    /\ last.usage_id \in Keys(usage_to_llm)

\* C20: the registry has one subscriber slot. subscribe(callback) replaces the
\* subscriber, nothing else changes it, and an add() that inserts calls the callback of
\* the latest subscribe and no earlier one; when subscribe was never called, add()
\* calls nobody and returns normally.
C20_SingleSubscriberSlot ==
    [][/\ last'.op = "subscribe" => subscriber' = last'.callback
       /\ last'.op # "subscribe" => subscriber' = subscriber
       /\ Added
          => IF subscribed = <<>>
             THEN /\ last'.notified = <<>>
                  /\ last'.raised = ""
                  /\ last'.usage_id \in Keys(usage_to_llm')
             ELSE last'.notified = <<subscribed[Len(subscribed)]>>]_vars

\* after two subscribes of different callbacks, an add notified the second
C20_Witness ==
    /\ last.op = "add"
    /\ Len(subscribed) = 2
    /\ subscribed[1] # subscribed[2]
    /\ last.notified = <<subscribed[2]>>

(***************************************************************************)
(* Opening a store: C21 (under OpenSpec)                                   *)
(***************************************************************************)
\* a store has just been constructed on the directory last'.store
Constructed == last'.op = "ProfileManager"

\* C21: ProfileManager(d) on a directory without index file creates the directory when
\* it does not exist, writes there a config.json that encodes the empty config, leaves
\* every other file alone and has the empty config in memory (default_profile None, no
\* profiles); on a directory with a valid index file it leaves the directory as it is
\* and has in memory exactly the index the file encodes.
C21_StoreInitialization ==
    [][Constructed
       => LET d == last'.store
              before == IF d \in DOMAIN files THEN files[d] ELSE <<>>
          IN  IF ~is_file(before, CONFIG_JSON)
              THEN /\ last'.raised = ""
                   /\ d \in DOMAIN files'
                   /\ DOMAIN files'[d] = DOMAIN before \cup {CONFIG_JSON}
                   /\ \A path \in DOMAIN before : files'[d][path] = before[path]
                   /\ files'[d][CONFIG_JSON] =
                         <<"config", [default_profile |-> <<"null">>, profiles |-> <<>>]>>
                   /\ config'[d] = [default_profile |-> None, profiles |-> <<>>]
              ELSE ~from_json_raises(before[CONFIG_JSON])
                   => /\ last'.raised = ""
                      /\ files'[d] = before
                      /\ json_dumps_config(config'[d]) = before[CONFIG_JSON][2]]_vars

\* a store was opened on a directory that did not exist, and then one on the
\* directory of an index of two profiles, one of them the default
C21_Witness ==
    /\ last.op = "ProfileManager"
    /\ last.store = "S1"
    /\ last.raised = ""
    /\ Len(config["S1"].profiles) = 2
    /\ config["S1"].default_profile # None
    /\ NEW_DIR \in DOMAIN files
    /\ DOMAIN files[NEW_DIR] = {CONFIG_JSON}

(***************************************************************************)
(* Saving and loading: C22 (under LoadSpec)                                *)
(***************************************************************************)
\* the observable fields of llm as a profile saved with include_secrets gives them back
SavedFields(llm, include_secrets) ==
    [model |-> llm.model, usage_id |-> llm.usage_id,
     api_key |-> IF include_secrets THEN llm.api_key ELSE None]

\* what the claim C22 says of one call load_profile(name) on store s
LoadAsClaimed(s, name) ==
    IF name \notin Range(get_profile_names(s))
    THEN /\ last'.raised = "FileNotFoundError: Unknown profile"
         /\ last'.message_names = Some(name)
    ELSE /\ last'.raised = ""
         /\ last'.ret # None
         /\ last'.reads = 1
         /\ last'.ret[1].oid \notin LiveOids
         /\ last.op = "save_profile" /\ last.raised = "" /\ last.name = name
            => Fields(last'.ret[1]) = SavedFields(last.llm[1], last.include_secrets)

\* C22: load_profile(p) of a profile that was saved and is in the index returns a new
\* object, read from disk, whose fields are those of the instance last saved under
\* p, the secrets kept when it was saved with include_secrets and left out otherwise;
\* load_profile of a name that is not in the index raises FileNotFoundError naming it.
C22_LoadReturnsWhatWasSaved ==
    [][last'.op = "load_profile" => LoadAsClaimed(last'.store, last'.name)]_vars

\* the document the index entry of name records is on disk
DocumentOf(s, name) ==
    name \in Range(get_profile_names(s)) =>
        is_file(files[s], config[s].profiles[FirstIndex(config[s].profiles, name)].file)

\* C22, apart from documents that delete_profile removed under another profile's
\* name (C9)
C22_LoadOfPresentDocument ==
    [][last'.op = "load_profile" /\ DocumentOf(last'.store, last'.name)
       => LoadAsClaimed(last'.store, last'.name)]_vars

(***************************************************************************)
(* The index schema: C23 (under ConfigSpec)                                *)
(***************************************************************************)
\* two entries of the list have one name
SharedName(profiles) ==
    \E i, j \in DOMAIN profiles : i # j /\ profiles[i].name = profiles[j].name

\* two entries of the list have one usage id that is not None
SharedUsageId(profiles) ==
    \E i, j \in DOMAIN profiles :
        i # j /\ profiles[i].usage_id # None /\ profiles[i].usage_id = profiles[j].usage_id

\* the default is given and is the name of no entry
DanglingDefault(default_profile, profiles) ==
    /\ default_profile # None
    /\ \A i \in DOMAIN profiles : profiles[i].name # default_profile[1]

\* C23: ProfilesConfig(default_profile, profiles) raises ValidationError exactly when
\* two entries share a name (wherever they stand), or two entries share a usage id
\* that is not None, or default_profile is not None and is the name of no entry;
\* entries without usage id are never duplicates of each other.
C23_ProfilesConfigValidation ==
    [][last'.op = "ProfilesConfig"
       => LET given == last'.given[1]
          IN  (last'.raised = "ValidationError")
              <=> \/ SharedName(given.profiles)
                  \/ SharedUsageId(given.profiles)
                  \/ DanglingDefault(given.default_profile, given.profiles)]_vars

\* a list whose first and third entries share a name was refused
C23_Witness ==
    /\ last.op = "ProfilesConfig"
    /\ last.raised = "ValidationError"
    /\ Len(last.given[1].profiles) = 3
    /\ last.given[1].profiles[1].name = last.given[1].profiles[3].name
    /\ last.given[1].profiles[1].name # last.given[1].profiles[2].name

(***************************************************************************)
(* The entry schema: C24 (under MetadataSpec)                              *)
(***************************************************************************)
\* a character of [A-Za-z0-9._-]
IsNameCharacter(c) ==
    \/ 65 <= c /\ c <= 90
    \/ 97 <= c /\ c <= 122
    \/ 48 <= c /\ c <= 57
    \/ c \in {46, 95, 45}

\* a name the claim C24 says is accepted: one or more name characters, not reserved
AcceptedName(name) ==
    /\ Len(name) >= 1
    /\ \A i \in 1..Len(name) : IsNameCharacter(name[i])
    /\ name \notin {<<>>, <<46>>, <<46, 46>>, <<99, 111, 110, 102, 105, 103>>}

\* C24: ProfileMetadata(name, file) is constructed exactly when name matches
\* [A-Za-z0-9._-]+, is none of "", ".", "..", "config", and file ends in ".json";
\* otherwise it raises ValidationError. save_profile under a name that is not
\* accepted raises before it writes anything, and after every save_profile config.json
\* is the index file, never a profile document.
C24_ProfileMetadataValidation ==
    [][/\ last'.op = "ProfileMetadata"
          => ((last'.raised = "")
              <=> (AcceptedName(last'.name) /\ EndsWith(last'.file, <<46, 106, 115, 111, 110>>)))
       /\ last'.op = "ProfileMetadata" => last'.raised \in {"", "ValidationError"}
       /\ last'.op = "save_profile" /\ ~AcceptedName(last'.name)
          => /\ last'.raised = "ValidationError"
             /\ files' = files
             /\ config' = config
       /\ last'.op = "save_profile"
          => /\ files'[last'.store][CONFIG_JSON][1] = "config"
             /\ last'.raised = "" => last'.name \o DOT_JSON # CONFIG_JSON]_vars

\* save_profile("config", ...) was refused on a store that holds profiles
C24_Witness ==
    /\ last.op = "save_profile"
    /\ last.name = NAME_CONFIG
    /\ last.raised = "ValidationError"
    /\ Len(config[last.store].profiles) >= 1
    /\ files[last.store][CONFIG_JSON] = ConfigFile(config[last.store])

(***************************************************************************)
(* Promotion from the store: C25 (under RegistrySpec)                      *)
(***************************************************************************)
\* C25: a get(u) that loads from the attached store does so only when the map has no
\* key u, and inserts the loaded object under u; from then on the map keeps that
\* object under u, and every get(u) returns this identical object without reading
\* the store, also after the profile was overwritten or deleted there.
C25_PromotedOnce ==
    [][/\ \A i \in DOMAIN usage_to_llm :
             i \in DOMAIN usage_to_llm' /\ usage_to_llm'[i] = usage_to_llm[i]
       /\ last'.op = "get" /\ last'.reads > 0
          => /\ last'.usage_id \notin Keys(usage_to_llm)
             /\ last'.raised = ""
                => /\ last'.ret[1].oid \notin LiveOids
                   /\ usage_to_llm' = Append(usage_to_llm, [key |-> last'.usage_id,
                                                            value |-> last'.ret[1]])
       /\ last'.op = "get" /\ last'.usage_id \in Keys(usage_to_llm)
          => /\ last'.raised = ""
             /\ last'.reads = 0
             /\ last'.ret = Some(Lookup(usage_to_llm, last'.usage_id))
             /\ usage_to_llm' = usage_to_llm]_vars

\* get returned from memory the object it had loaded from a profile that has since
\* been deleted from the store
C25_Witness ==
    /\ last.op = "get"
    /\ last.raised = ""
    /\ last.reads = 0
    /\ last.ret[1].loaded_from # None
    /\ profile_manager # None
    /\ last.ret[1].loaded_from[1] \notin Range(get_profile_names(profile_manager[1]))

(***************************************************************************)
(* The entry save_profile writes: C26 (under StoreSpec)                    *)
(***************************************************************************)
\* C26: the index entry save_profile(name, description, llm) writes has the name
\* name, the file name + ".json", the description given and the usage id of llm; and
\* every entry of a store that started from an empty directory has the file
\* name + ".json" for its own name.
C26_EntryMatchesSaveArguments ==
    [][/\ Saved
          => LET new == config'[last'.store].profiles
                 written == new[FirstIndex(new, last'.name)]
             IN  /\ Positions(new, last'.name) # {}
                 /\ written.name = last'.name
                 /\ written.file = last'.name \o <<46, 106, 115, 111, 110>>
                 /\ written.description = last'.description
                 /\ written.usage_id = Some(last'.llm[1].usage_id)
       /\ \A i \in DOMAIN config'["S1"].profiles :
             config'["S1"].profiles[i].file =
                config'["S1"].profiles[i].name \o <<46, 106, 115, 111, 110>>]_vars

\* a profile with a dot in its name was saved again with another description,
\* from an instance whose usage id is the empty string
C26_Witness ==
    /\ last.op = "save_profile"
    /\ last.raised = ""
    /\ last.name = NAME_A1
    /\ last.description # FUN
    /\ last.llm[1].usage_id = USAGE_EMPTY
    /\ Len(config[last.store].profiles) = 3
    /\ config[last.store].profiles[1].name = NAME_A1
    /\ config[last.store].profiles[1].usage_id = Some(USAGE_EMPTY)

(***************************************************************************)
(* The cached default and the documents: C27, C28 (under CacheSpec)        *)
(***************************************************************************)
\* C27: every get_default_profile() on a store that has a default returns an object
\* whose fields are those of the document of the default profile as it is on disk,
\* what load_profile(default_profile) returns, also when save_profile has overwritten
\* that profile since the default was last returned.
C27_DefaultFollowsDocument ==
    [][/\ last'.op = "get_default_profile"
       /\ last'.raised = ""
       /\ config[last'.store].default_profile # None
       => /\ last'.ret # None
          /\ Fields(last'.ret[1]) = DefaultDocument(last'.store)]_vars

\* C27, for the call that finds no entry in the cache
C27_DefaultLoadedOnMiss ==
    [][/\ last'.op = "get_default_profile"
       /\ last'.raised = ""
       /\ config[last'.store].default_profile # None
       /\ ~cache_hit(default_cache, last'.store)
       => /\ last'.ret # None
          /\ Fields(last'.ret[1]) = DefaultDocument(last'.store)]_vars

\* C28: the cache of the default belongs to one store: a get_default_profile() on a
\* store returns the identical object the last one on that store returned when no
\* set_default_profile succeeded on that store in between, whatever was done to the
\* other stores of the process.
C28_CachePerStore ==
    [][/\ last'.op = "get_default_profile"
       /\ last'.raised = ""
       /\ default_seen[last'.store] # None
       /\ ~default_seen[last'.store][1].rebound
       => /\ last'.ret = default_seen[last'.store][1].value
          /\ last'.reads = 0]_vars

\* C28, when no set_default_profile succeeded on any store of the process in between
C28_CacheUntilAnyRebound ==
    [][/\ last'.op = "get_default_profile"
       /\ last'.raised = ""
       /\ default_seen[last'.store] # None
       /\ ~default_seen[last'.store][1].cleared
       => /\ last'.ret = default_seen[last'.store][1].value
          /\ last'.reads = 0]_vars

(***************************************************************************)
(* The registry and its attached store: C29, C30 (under AttachedSpec)      *)
(***************************************************************************)
\* the usage ids of the index of store s are pairwise distinct
UsageIdsDistinct(s) ==
    \A usage_id \in UsageIds :
        Cardinality(PositionsOfUsageId(config[s].profiles, usage_id)) <= 1

\* get(usage_id) would return an instance
Resolvable(usage_id) ==
    \/ get_branch(usage_id) = "memory"
    \/ /\ get_branch(usage_id) = "disk"
       /\ load_profile(profile_manager[1],
                       profile_name_of(config[profile_manager[1]].profiles, usage_id),
                       new_oid).raised = ""

\* the step is an export_profiles() of the registry into its attached store
ExportIntoAttached ==
    /\ last'.op = "export_profiles"
    /\ last'.path = None
    /\ last'.raised = ""
    /\ profile_manager # None

\* C29, first part: an export into the attached store leaves the usage ids of the
\* index pairwise distinct
C29_ExportKeepsUsageIdsDistinct ==
    [][ExportIntoAttached /\ UsageIdsDistinct(profile_manager[1])
       => UsageIdsDistinct(profile_manager[1])']_vars

\* C29, second part: every usage id listed and resolvable before an export into the
\* attached store is listed and resolvable after it
C29_ExportKeepsIdentifiers ==
    [][ExportIntoAttached
       => \A usage_id \in UsageIds :
            usage_id \in Range(list_usage_ids) /\ Resolvable(usage_id)
            => usage_id \in Range(list_usage_ids)' /\ Resolvable(usage_id)']_vars

\* C29: export_profiles() into the attached store preserves the integrity of the store
\* and the identifiers that resolve: after the export the usage ids of the index are
\* still pairwise distinct, and every usage id that list_usage_ids() reported before
\* the export is still reported and still resolved by get().
C29_ExportPreservesStore ==
    [][ExportIntoAttached
       => /\ UsageIdsDistinct(profile_manager[1]) => UsageIdsDistinct(profile_manager[1])'
          /\ \A usage_id \in UsageIds :
                usage_id \in Range(list_usage_ids) /\ Resolvable(usage_id)
                => usage_id \in Range(list_usage_ids)' /\ Resolvable(usage_id)']_vars

Reloaded == Constructed /\ last'.store \in DOMAIN config

\* load_profile succeeds for every name that store s lists
EveryListedNameLoads(s) ==
    \A i \in DOMAIN config[s].profiles :
        load_profile(s, config[s].profiles[i].name, new_oid).raised = ""

\* load_profile succeeds for every name listed by the store of the last call
EveryNameOfTheLastStoreLoads == EveryListedNameLoads(last.store)

\* C31, first part: a store constructed on the directory of a store succeeds
C31_ReloadSucceeds ==
    [][Reloaded => last'.raised = ""]_vars

\* C31, second part: a store constructed on the directory of a store has the index
\* that store had in memory
C31_ReloadGivesTheSameIndex ==
    [][Reloaded /\ last'.raised = "" => config'[last'.store] = config[last'.store]]_vars

\* C31, third part: every name the constructed store lists can be loaded
C31_ReloadedNamesLoad ==
    [][Reloaded /\ last'.raised = "" => EveryNameOfTheLastStoreLoads']_vars

\* C31: after any sequence of successful save_profile, delete_profile and
\* set_default_profile on a store, constructing a store on the same directory
\* succeeds, its index equals the index the first store has in memory, and
\* load_profile succeeds for every name of that index.
C31_ReloadRoundTrip ==
    [][Reloaded
       => /\ last'.raised = ""
          /\ config'[last'.store] = config[last'.store]
          /\ EveryNameOfTheLastStoreLoads']_vars

\* C31, for an index whose usage ids are pairwise distinct: the construction
\* succeeds and gives the same index
C31_ReloadOfDistinctUsageIds ==
    [][Reloaded /\ UsageIdsDistinct(last'.store)
       => /\ last'.raised = ""
          /\ config'[last'.store] = config[last'.store]]_vars

====
